---- MODULE Spec2Model ----
(***************************************************************************)
(* StegoScale: the LSB codec of src/utils/steganography.ts (encodeLSB,     *)
(* decodeLSB, stringToBin, binToString) and the capacity effect of         *)
(* src/App.tsx.                                                            *)
(*                                                                         *)
(* A pixel buffer is a sequence of bytes (ImageData.data, RGBA, 4 bytes    *)
(* per pixel); JavaScript index i is TLA+ index i+1.  A binary string is a *)
(* sequence of 0/1 digits, a message a sequence of UTF-16 character codes. *)
(***************************************************************************)
EXTENDS Integers, Sequences, FiniteSets, TLC

(* ---------------------------- bounds ---------------------------------- *)
MaxPixels == 14     \* covers have 0..MaxPixels pixels
MaxLen == 1         \* messages have 0..MaxLen characters
MaxDim == 10        \* uploaded images are 0..MaxDim pixels wide and high

\* character codes a message is drawn from: NUL, 'A' and one code above 255
Chars == {0, 65, 300}
\* byte values a cover is filled with; its speck byte is the complement
Backgrounds == {0, 170}
BitDepths == 1..4
\* the scale slider of App.tsx, in half steps: 1, 1.5, ..., 4
Scales == 2..8

Messages == UNION {[1..n -> Chars] : n \in 0..MaxLen}

(* ------------------------ JavaScript primitives ----------------------- *)
NaN == -1

RECURSIVE Pow2(_)
Pow2(n) == IF n = 0 THEN 1 ELSE 2 * Pow2(n - 1)

Min(a, b) == IF a < b THEN a ELSE b
Max(a, b) == IF a > b THEN a ELSE b

\* Number.prototype.toString(2)
RECURSIVE toString2(_)
toString2(n) == IF n < 2 THEN <<n>> ELSE Append(toString2(n \div 2), n % 2)

\* String.prototype.padStart(w, '0'): never shortens
padStart(s, w) ==
  IF Len(s) >= w THEN s
  ELSE [j \in 1..w |-> IF j <= w - Len(s) THEN 0 ELSE s[j - (w - Len(s))]]

\* padEnd with the zeros put in front of the digits
padEnd_PadsLeft(s, w) == padStart(s, w)

\* String.prototype.padEnd(w, '0'): never shortens
padEnd(s, w) ==
  IF Len(s) >= w THEN s
  ELSE [j \in 1..w |-> IF j <= Len(s) THEN s[j] ELSE 0]

\* String.prototype.substring(from, to), 0-based, clamped to the length
substring(s, from, to) == SubSeq(s, Min(from, Len(s)) + 1, Min(to, Len(s)))

\* parseInt(s, 2) of a digit string; NaN for the empty string.  A value
\* above Huge is held at Huge: the code only compares such a value with 0
\* and with maxPossibleBytes, which is far below Huge for every buffer here
Huge == 1073741823

RECURSIVE parseInt2(_)
parseInt2(s) ==
  IF Len(s) = 0 THEN NaN
  ELSE IF Len(s) = 1 THEN s[1]
  ELSE LET high == parseInt2(SubSeq(s, 1, Len(s) - 1))
       IN IF high > (Huge - 1) \div 2 THEN Huge ELSE 2 * high + s[Len(s)]

RECURSIVE BitAnd(_, _)
BitAnd(a, b) ==
  IF a = 0 \/ b = 0 THEN 0
  ELSE (a % 2) * (b % 2) + 2 * BitAnd(a \div 2, b \div 2)

RECURSIVE BitOr(_, _)
BitOr(a, b) ==
  IF a = 0 THEN b
  ELSE IF b = 0 THEN a
  ELSE Max(a % 2, b % 2) + 2 * BitOr(a \div 2, b \div 2)

\* a << n for a <= 255 and n <= 4: far from the 32-bit wrap of JavaScript
ShiftLeft(a, n) == a * Pow2(n)

\* store into a Uint8ClampedArray element
Clamp(v) == IF v < 0 THEN 0 ELSE IF v > 255 THEN 255 ELSE v

(* ------------------------- stringToBin / binToString ------------------ *)
RECURSIVE stringToBin(_)
stringToBin(str) ==
  IF Len(str) = 0 THEN <<>>
  ELSE padStart(toString2(str[1]), 8) \o stringToBin(Tail(str))

\* bin.match(/.{1,8}/g): groups of 8, a shorter last group allowed
RECURSIVE binToString(_)
binToString(bin) ==
  IF Len(bin) = 0 THEN <<>>
  ELSE <<parseInt2(substring(bin, 0, 8))>> \o binToString(substring(bin, 8, Len(bin)))

(* ------------------------------ encodeLSB ----------------------------- *)
\* lengthHeader holding the length in bits instead of characters
lengthHeader_InBits(message) == padStart(toString2(Len(message) * 8), 32)

lengthHeader(message) == padStart(toString2(Len(message)), 32)

fullBinary(message) == lengthHeader(message) \o stringToBin(message)

\* encodeMask keeping the low bits instead of the high ones
encodeMask_LowBits(bitsPerChannel) == ShiftLeft(1, bitsPerChannel) - 1

\* const mask = 255 << bitsPerChannel
encodeMask(bitsPerChannel) == ShiftLeft(255, bitsPerChannel)

\* isAlpha skipping the first byte of a pixel instead of the last
isAlpha_OffByOne(i) == i % 4 = 0

\* the alpha test of both walks: (i + 1) % 4 === 0
isAlpha(i) == (i + 1) % 4 = 0

\* encodeContinues leaving the last pixel out of the walk
encodeContinues_StopsEarly(d, full, i, bitIndex) ==
  i < Len(d) - 4 /\ bitIndex < Len(full)

\* the loop condition: i < data.length && bitIndex < fullBinary.length
encodeContinues(d, full, i, bitIndex) == i < Len(d) /\ bitIndex < Len(full)

\* the for loop of encodeLSB, from index i with bitIndex bits consumed
RECURSIVE encodeLoop(_, _, _, _, _)
encodeLoop(d, full, bitsPerChannel, i, bitIndex) ==
  IF ~encodeContinues(d, full, i, bitIndex) THEN d
  ELSE IF isAlpha(i) THEN encodeLoop(d, full, bitsPerChannel, i + 1, bitIndex)
  ELSE LET bitsToHide == substring(full, bitIndex, bitIndex + bitsPerChannel)
           valueToHide == parseInt2(padEnd(bitsToHide, bitsPerChannel))
           byte == Clamp(BitOr(BitAnd(d[i + 1], encodeMask(bitsPerChannel)), valueToHide))
       IN encodeLoop([d EXCEPT ![i + 1] = byte], full, bitsPerChannel,
                     i + 1, bitIndex + bitsPerChannel)

\* capacity: Math.floor((data.length * 3 / 4) * bitsPerChannel / 8)
encodeCapacity(d, bitsPerChannel) == (Len(d) * 3 * bitsPerChannel) \div 32

encodeLSB(d, message, bitsPerChannel) ==
  [data |-> encodeLoop(d, fullBinary(message), bitsPerChannel, 0, 0),
   capacity |-> encodeCapacity(d, bitsPerChannel),
   messageLength |-> Len(message)]

(* ------------------------------ decodeLSB ----------------------------- *)
decodeMask(bitsPerChannel) == ShiftLeft(1, bitsPerChannel) - 1

\* totalAvailableBits counting the alpha bytes too
totalAvailableBits_WithAlpha(d, bitsPerChannel) == Len(d) * bitsPerChannel

\* (data.length / 4) * 3 * bitsPerChannel; data.length is a multiple of 4
totalAvailableBits(d, bitsPerChannel) == (Len(d) \div 4) * 3 * bitsPerChannel

\* maxPossibleBytes without the 32 header bits taken off
maxPossibleBytes_NoHeader(d, bitsPerChannel) ==
  totalAvailableBits(d, bitsPerChannel) \div 8

\* Math.floor((totalAvailableBits - 32) / 8)
maxPossibleBytes(d, bitsPerChannel) ==
  (totalAvailableBits(d, bitsPerChannel) - 32) \div 8

\* both while loops of decodeLSB: extend st.binaryString until it has
\* `need` digits or the buffer ends; st.reads collects the indices whose
\* byte was read
RECURSIVE extractLoop(_, _, _, _)
extractLoop(d, bitsPerChannel, st, need) ==
  IF ~(Len(st.binaryString) < need /\ st.i < Len(d)) THEN st
  ELSE IF ~isAlpha(st.i)
       THEN LET bits == padStart(toString2(BitAnd(d[st.i + 1], decodeMask(bitsPerChannel))),
                                 bitsPerChannel)
            IN extractLoop(d, bitsPerChannel,
                           [i |-> st.i + 1,
                            binaryString |-> st.binaryString \o bits,
                            reads |-> st.reads \cup {st.i}], need)
       ELSE extractLoop(d, bitsPerChannel, [st EXCEPT !.i = st.i + 1], need)

\* headerInvalid accepting a zero length
headerInvalid_AllowsZero(messageLength, maxBytes) ==
  messageLength = NaN \/ messageLength < 0 \/ messageLength > maxBytes

\* isNaN(messageLength) || messageLength <= 0 || messageLength > maxPossibleBytes
headerInvalid(messageLength, maxBytes) ==
  messageLength = NaN \/ messageLength <= 0 \/ messageLength > maxBytes

Failure(kind, reads) == [kind |-> kind, value |-> <<>>, reads |-> reads]

decodeLSB(d, bitsPerChannel) ==
  IF totalAvailableBits(d, bitsPerChannel) < 32 THEN Failure("TooSmall", {})
  ELSE
    LET st1 == extractLoop(d, bitsPerChannel,
                           [i |-> 0, binaryString |-> <<>>, reads |-> {}], 32)
        messageLength == parseInt2(substring(st1.binaryString, 0, 32))
    IN IF headerInvalid(messageLength, maxPossibleBytes(d, bitsPerChannel))
       THEN Failure("InvalidHeader", st1.reads)
       ELSE
         LET requiredBits == 32 + messageLength * 8
             st2 == extractLoop(d, bitsPerChannel, st1, requiredBits)
         IN IF Len(st2.binaryString) < requiredBits
            THEN Failure("Truncated", st2.reads)
            ELSE [kind |-> "ok",
                  value |-> binToString(substring(st2.binaryString, 32, requiredBits)),
                  reads |-> st2.reads]

(* ------------------------- App.tsx capacity effect -------------------- *)
\* capacityEffect without the 4 header bytes taken off
capacityEffect_NoHeader(width, height, scale2, bitsPerChannel) ==
  Max(0, ((width * scale2) * (height * scale2) * 3 * bitsPerChannel) \div 32)

\* the useEffect body; scale2 is twice the slider's scale, so that
\* pixels = (width * scale2 / 2) * (height * scale2 / 2)
capacityEffect(width, height, scale2, bitsPerChannel) ==
  Max(0, ((width * scale2) * (height * scale2) * 3 * bitsPerChannel) \div 32 - 4)

(* ------------------------------- state -------------------------------- *)
VARIABLES
  pc,          \* "cover" | "stego" | "decoded" | "app"
  cover,       \* the pixel buffer before encodeLSB
  data,        \* the pixel buffer (imageData.data put back on the canvas)
  message,     \* the message passed to encodeLSB
  encBits,     \* bitsPerChannel of the encodeLSB call, 0 before it
  result,      \* capacity and messageLength returned by encodeLSB
  decBits,     \* bitsPerChannel of the decodeLSB call, 0 before it
  outcome,     \* what decodeLSB returned or threw
  originalImage,  \* App state: [loaded, width, height]
  scale,          \* App state, in half steps
  bitsPerChannel, \* App state
  capacity        \* App state

codecVars == <<pc, cover, data, message, encBits, result, decBits, outcome>>
appVars == <<originalImage, scale, bitsPerChannel, capacity>>
vars == <<pc, cover, data, message, encBits, result, decBits, outcome,
          originalImage, scale, bitsPerChannel, capacity>>

\* a cover of `pixels` pixels: every byte is `background`, except the green
\* byte of pixel number `speck` (1-based, 0 for none), which is its complement
Cover(pixels, background, speck) ==
  [j \in 1..(4 * pixels) |->
     IF speck > 0 /\ j = 4 * (speck - 1) + 2 THEN 255 - background ELSE background]

NoImage == [loaded |-> FALSE, width |-> 0, height |-> 0]

AppInit ==
  /\ originalImage = NoImage
  /\ scale = 2
  /\ bitsPerChannel = 1
  /\ capacity = 0

CodecIdle ==
  /\ message = <<>>
  /\ encBits = 0
  /\ result = [capacity |-> 0, messageLength |-> 0]
  /\ decBits = 0
  /\ outcome = [kind |-> "none", value |-> <<>>, reads |-> {}]

Init ==
  /\ pc = "cover"
  /\ \E pixels \in 0..MaxPixels, background \in Backgrounds :
       \E speck \in 0..pixels :
         /\ cover = Cover(pixels, background, speck)
         /\ data = cover
  /\ CodecIdle
  /\ AppInit

\* encodeLSB(canvas, m, k) on the cover
Encode ==
  /\ pc = "cover"
  /\ \E m \in Messages, k \in BitDepths :
       \E r \in {encodeLSB(data, m, k)} :
          /\ data' = r.data
          /\ result' = [capacity |-> r.capacity, messageLength |-> r.messageLength]
          /\ message' = m
          /\ encBits' = k
  /\ pc' = "stego"
  /\ UNCHANGED <<cover, decBits, outcome>>
  /\ UNCHANGED appVars

\* decodeLSB(canvas, k) on the buffer as it is
Decode ==
  /\ pc \in {"cover", "stego"}
  /\ \E k \in BitDepths :
       /\ outcome' = decodeLSB(data, k)
       /\ decBits' = k
  /\ pc' = "decoded"
  /\ UNCHANGED <<cover, data, message, encBits, result>>
  /\ UNCHANGED appVars

Next == Encode \/ Decode

Spec == Init /\ [][Next]_vars

(* --------------------------- App specification ------------------------ *)
\* the effect runs after every render in which a dependency changed
runEffect(img, s, b) ==
  IF img.loaded THEN capacityEffect(img.width, img.height, s, b) ELSE capacity

InitApp ==
  /\ pc = "app"
  /\ cover = <<>>
  /\ data = <<>>
  /\ CodecIdle
  /\ AppInit

\* img.onload of handleImageUpload
LoadImage ==
  /\ pc = "app"
  /\ \E w \in 0..MaxDim, h \in 0..MaxDim :
       /\ originalImage' = [loaded |-> TRUE, width |-> w, height |-> h]
       /\ capacity' = runEffect(originalImage', scale, bitsPerChannel)
  /\ UNCHANGED <<scale, bitsPerChannel>>
  /\ UNCHANGED codecVars

\* onChange of the scale slider
SetScale ==
  /\ pc = "app"
  /\ \E s \in Scales :
       /\ scale' = s
       /\ capacity' = runEffect(originalImage, s, bitsPerChannel)
  /\ UNCHANGED <<originalImage, bitsPerChannel>>
  /\ UNCHANGED codecVars

\* onClick of a bit-depth button
SetBitsPerChannel ==
  /\ pc = "app"
  /\ \E b \in BitDepths :
       /\ bitsPerChannel' = b
       /\ capacity' = runEffect(originalImage, scale, b)
  /\ UNCHANGED <<originalImage, scale>>
  /\ UNCHANGED codecVars

\* resetAll: the image is dropped, the effect's guard fails, capacity stays
ResetAll ==
  /\ pc = "app"
  /\ originalImage' = NoImage
  /\ UNCHANGED <<scale, bitsPerChannel, capacity>>
  /\ UNCHANGED codecVars

NextApp == LoadImage \/ SetScale \/ SetBitsPerChannel \/ ResetAll

SpecApp == InitApp /\ [][NextApp]_vars

(* ====================== properties of the codec ======================= *)
Decoded == pc = "decoded"
\* encodeLSB has run on the buffer
Encoded == encBits # 0
pixelCount == Len(data) \div 4
usableBits(k) == pixelCount * 3 * k
\* the frame of the encoded message fits the buffer
Fits == Len(message) * 8 + 32 <= usableBits(encBits)
singleByte(m) == \A j \in 1..Len(m) : m[j] <= 255
\* JavaScript indices of the buffer, alpha and colour
indices == 0..(Len(data) - 1)
alphaIndices == {i \in indices : (i + 1) % 4 = 0}
colourIndices == indices \ alphaIndices
\* index of the m-th colour byte (m from 0)
colourIndex(m) == 4 * (m \div 3) + (m % 3)
\* the low k bits of the colour bytes in index order, each byte's bits
\* most significant first
lowBitStream(d, k) ==
  [j \in 1..((Len(d) \div 4) * 3 * k) |->
     (d[colourIndex((j - 1) \div k) + 1] \div Pow2((k - 1) - ((j - 1) % k))) % 2]
\* the first 32 bits of that stream as an unsigned big-endian number
headerRead(d, k) == parseInt2(SubSeq(lowBitStream(d, k), 1, 32))
\* capacityBytes(width, height, k) of the capacity query, scale 1
capacityBytes(width, height, k) == Max(0, (width * height * 3 * k) \div 8 - 4)

\* C1 as stated: every fitting payload of single-byte characters, the empty
\* one included, is returned by decodeLSB with the bit depth of encodeLSB
C1_RoundTripAnyPayload ==
  (Decoded /\ Encoded /\ decBits = encBits /\ singleByte(message) /\ Fits)
    => (outcome.kind = "ok" /\ outcome.value = message)

\* C1 amended: every fitting non-empty payload of single-byte characters is
\* returned by decodeLSB with the bit depth of encodeLSB; the empty payload
\* is rejected with InvalidHeader
C1_RoundTrip ==
  (Decoded /\ Encoded /\ decBits = encBits /\ singleByte(message) /\ Fits)
    => IF Len(message) = 0
       THEN outcome.kind = "InvalidHeader"
       ELSE outcome.kind = "ok" /\ outcome.value = message

C1_Witness ==
  /\ Decoded /\ Encoded /\ decBits = encBits /\ encBits = 3
  /\ message = <<65>> /\ Fits
  /\ outcome.value = message

\* C2 as stated: with a bit depth other than the one of encodeLSB, decodeLSB
\* fails with InvalidHeader or Truncated or returns a string other than the
\* payload
C2_MismatchNeverReturnsPayload ==
  (Decoded /\ Encoded /\ decBits # encBits /\ Fits)
    => \/ outcome.kind \in {"InvalidHeader", "Truncated"}
       \/ (outcome.kind = "ok" /\ outcome.value # message)

\* C2 amended: with a bit depth other than the one of encodeLSB, decodeLSB
\* fails with TooSmall or InvalidHeader, never with Truncated, or returns a
\* string of 1..floor((pixels*3*k' - 32)/8) characters, which may be the
\* payload itself
C2_MismatchOutcome ==
  (Decoded /\ Encoded /\ decBits # encBits /\ Fits)
    => \/ outcome.kind \in {"TooSmall", "InvalidHeader"}
       \/ /\ outcome.kind = "ok"
          /\ Len(outcome.value) >= 1
          /\ Len(outcome.value) <= (usableBits(decBits) - 32) \div 8

\* a wrong bit depth returns the payload
C2_Witness ==
  /\ Decoded /\ Encoded /\ decBits # encBits /\ Fits
  /\ outcome.kind = "ok" /\ outcome.value = message

\* the first n bits of a frame, zeros after its end
framePrefix(full, n) == [j \in 1..n |-> IF j <= Len(full) THEN full[j] ELSE 0]
oversize == Len(message) > capacityBytes(pixelCount, 1, encBits)

\* C3: a payload longer than capacityBytes on a buffer of at least 32 usable
\* bits: encodeLSB fills the low k bits of every colour byte with the
\* frame's leading bits, and decodeLSB with the same bit depth fails with
\* InvalidHeader or Truncated
C3_Oversize ==
  (Encoded /\ usableBits(encBits) >= 32 /\ oversize)
    => /\ Len(data) = Len(cover)
       /\ lowBitStream(data, encBits)
            = framePrefix(fullBinary(message), usableBits(encBits))
       /\ (Decoded /\ decBits = encBits)
            => outcome.kind \in {"InvalidHeader", "Truncated"}

C3_Witness ==
  /\ Decoded /\ Encoded /\ decBits = encBits /\ encBits = 1
  /\ pixelCount = 11 /\ Len(message) = 1
  /\ outcome.kind = "InvalidHeader"

\* C4: encodeLSB leaves the upper 8-k bits of every colour byte as they
\* were, and every byte stays in 0..255
C4_UpperBits ==
  Encoded =>
    \A i \in colourIndices :
      /\ data[i + 1] \div Pow2(encBits) = cover[i + 1] \div Pow2(encBits)
      /\ data[i + 1] \in 0..255

\* a byte with upper bits set had its low bits rewritten
C4_Witness ==
  /\ Encoded
  /\ \E i \in colourIndices :
       cover[i + 1] = 170 /\ data[i + 1] # cover[i + 1]

\* C5: encodeLSB leaves every alpha byte as it was, and decodeLSB reads no
\* alpha byte
C5_AlphaUntouched ==
  /\ Encoded => \A i \in alphaIndices : data[i + 1] = cover[i + 1]
  /\ outcome.reads \cap alphaIndices = {}

\* both walks went past the first alpha byte
C5_Witness ==
  /\ Decoded /\ Encoded
  /\ data # cover
  /\ \E i \in outcome.reads : i > 3

\* C6: after encodeLSB on a buffer of at least 32 usable bits, the first 32
\* low bits of the colour bytes, read as a big-endian number, are the
\* length of the message
C6_HeaderCorrect ==
  (Encoded /\ usableBits(encBits) >= 32)
    => headerRead(data, encBits) = Len(message)

\* a header written in groups of 3 bits
C6_Witness ==
  /\ Encoded /\ encBits = 3 /\ usableBits(encBits) >= 32
  /\ Len(message) = 1
  /\ headerRead(data, encBits) = 1

\* C7: on a buffer of at least 32 usable bits decodeLSB fails with
\* InvalidHeader exactly when the header h it reads is 0 or above
\* floor((pixels*3*k - 32)/8); otherwise it returns h characters with codes
\* in 0..255; a failure carries no string
C7_InvalidHeader ==
  (Decoded /\ usableBits(decBits) >= 32)
    => LET h == headerRead(data, decBits)
           maxBytes == (usableBits(decBits) - 32) \div 8
       IN /\ outcome.kind = "InvalidHeader" <=> (h = 0 \/ h > maxBytes)
          /\ outcome.kind # "InvalidHeader"
               => /\ outcome.kind = "ok"
                  /\ Len(outcome.value) = h
                  /\ \A j \in 1..Len(outcome.value) : outcome.value[j] \in 0..255
          /\ outcome.kind # "ok" => outcome.value = <<>>

\* a cover that was never encoded holds a valid header
C7_Witness ==
  /\ Decoded /\ ~Encoded /\ usableBits(decBits) >= 32
  /\ headerRead(data, decBits) = 1
  /\ outcome.kind = "ok" /\ Len(outcome.value) = 1

\* C8: decodeLSB fails with TooSmall exactly when pixels*3*k < 32, and then
\* it has read no byte
C8_TooSmall ==
  Decoded =>
    /\ outcome.kind = "TooSmall" <=> usableBits(decBits) < 32
    /\ outcome.kind = "TooSmall" => outcome.reads = {}

\* 24 usable bits
C8_Witness ==
  /\ Decoded /\ pixelCount = 2 /\ decBits = 4
  /\ outcome.kind = "TooSmall"

\* C9: the capacity encodeLSB returns is capacityBytes of the buffer, the
\* largest payload that still leaves room for the header
C9_ReportedCapacity ==
  Encoded => result.capacity = capacityBytes(pixelCount, 1, encBits)

(* ================== properties of the capacity effect ================= *)
\* C10: with an image loaded the displayed capacity does not decrease when
\* width, height or bit depth grow at a fixed scale; for a canvas of whole
\* dimensions it is capacityBytes of them, and a 20 x 20 canvas at 1 bit
\* per channel has capacity 146
C10_CapacityMonotone ==
  /\ [][(/\ originalImage.loaded /\ originalImage'.loaded
         /\ scale' = scale
         /\ originalImage'.width >= originalImage.width
         /\ originalImage'.height >= originalImage.height
         /\ bitsPerChannel' >= bitsPerChannel)
        => capacity' >= capacity]_vars
  /\ [](originalImage.loaded
          => /\ (/\ (originalImage.width * scale) % 2 = 0
                 /\ (originalImage.height * scale) % 2 = 0)
                => capacity = capacityBytes((originalImage.width * scale) \div 2,
                                            (originalImage.height * scale) \div 2,
                                            bitsPerChannel)
             /\ (/\ originalImage.width * scale = 40
                 /\ originalImage.height * scale = 40
                 /\ bitsPerChannel = 1)
                => capacity = 146)

\* a 10 x 10 image at scale 2
C10_Witness ==
  /\ originalImage = [loaded |-> TRUE, width |-> 10, height |-> 10]
  /\ scale = 4 /\ bitsPerChannel = 1
  /\ capacity = 146

(* ================= properties of the embedded frame =================== *)
\* the low 8 bits of a character code, most significant first
lowEightBits(c) == [j \in 1..8 |-> ((c % 256) \div Pow2(8 - j)) % 2]
\* 8 bits per character
RECURSIVE eightBitPayload(_)
eightBitPayload(m) ==
  IF Len(m) = 0 THEN <<>> ELSE lowEightBits(m[1]) \o eightBitPayload(Tail(m))
\* the frame of 32 + 8*len(message) bits
eightBitFrame(m) == padStart(toString2(Len(m)), 32) \o eightBitPayload(m)

\* C11: the bit sequence encodeLSB embeds has 32 + 8*len(message) bits, the
\* header followed by the low 8 bits of every character code, also for
\* codes above 255
C11_FrameBitLength ==
  Encoded =>
    /\ Len(fullBinary(message)) = 32 + 8 * Len(message)
    /\ fullBinary(message) = eightBitFrame(message)

\* position of colour byte i among the colour bytes (from 0)
colourRank(i) == 3 * (i \div 4) + (i % 4)
\* the number of colour bytes a frame of 32 + 8*len(message) bits takes
frameBytes == (32 + 8 * Len(message) + encBits - 1) \div encBits

\* C12: when the frame fits, encodeLSB changes only the first
\* ceil((32 + 8*len(P))/k) colour bytes, every other byte keeps its value,
\* and when the frame length is not a multiple of k the last of those bytes
\* holds the frame's remaining bits followed by zero bits
C12_StopsAtFrameEnd ==
  (Encoded /\ Fits) =>
    /\ \A i \in indices :
         data[i + 1] # cover[i + 1]
           => (i \in colourIndices /\ colourRank(i) < frameBytes)
    /\ (32 + 8 * Len(message)) % encBits # 0
         => SubSeq(lowBitStream(data, encBits),
                   (frameBytes - 1) * encBits + 1, frameBytes * encBits)
              = SubSeq(framePrefix(eightBitFrame(message), frameBytes * encBits),
                       (frameBytes - 1) * encBits + 1, frameBytes * encBits)

\* C13: decodeLSB never fails with Truncated: it returns a string or fails
\* with TooSmall or InvalidHeader, and a header h that passes the sanity
\* check has 32 + 8*h <= pixels*3*k, all of which the walk delivers
C13_NeverTruncated ==
  Decoded =>
    /\ outcome.kind \in {"ok", "TooSmall", "InvalidHeader"}
    /\ outcome.kind = "ok"
         => /\ 32 + 8 * headerRead(data, decBits) <= usableBits(decBits)
            /\ Len(lowBitStream(data, decBits)) = usableBits(decBits)
            /\ outcome.value
                 = binToString(SubSeq(lowBitStream(data, decBits), 33,
                                      32 + 8 * headerRead(data, decBits)))

\* a header equal to maxPossibleBytes: 40 of the 42 bits are needed
C13_Witness ==
  /\ Decoded /\ decBits = 1 /\ pixelCount = 14
  /\ outcome.kind = "ok" /\ Len(outcome.value) = 1

====
